---- MODULE Spec2Model ----
(***************************************************************************)
(* Model of TailwindcssPatcher (api/tailwindcss-patcher.ts) and of the     *)
(* `extract` command that drives it: version resolution, the legacy build, *)
(* class collection, reconciliation with the persisted cache and the       *)
(* optional output file.                                                    *)
(*                                                                         *)
(* A JavaScript Set of class names is modelled as a set (its insertion     *)
(* order is not observed by any operation here except Array.from), a       *)
(* version string as a sequence of one-character strings.                  *)
(***************************************************************************)
EXTENDS Integers, Sequences, FiniteSets, TLC

\* ------------------------------------------------------------------ bounds
NumClasses == 2
MaxVersionLen == 3

ClassNames == <<"flex", "p-4", "mt-2", "grid">>
Classes == {ClassNames[i] : i \in 1..NumClasses}

Undefined == "undefined"

Range(s) == {s[i] : i \in 1..Len(s)}

\* every value a Set of class names can hold
ClassSets == SUBSET Classes

\* Set.prototype.add
SetAdd(set, value) == set \cup {value}

\* AddAll leaving the loop after the first value
AddAllFirst(set, existing) ==
    IF existing = {} THEN set
    ELSE SetAdd(set, CHOOSE v \in existing : TRUE)

\* for (const value of existing) set.add(value)
RECURSIVE AddAll(_, _)
AddAll(set, existing) ==
    IF existing = {} THEN set
    ELSE LET value == CHOOSE v \in existing : TRUE
         IN  AddAll(SetAdd(set, value), existing \ {value})

\* ------------------------------------------------- semver coerce (library)
Digits == {"0", "1", "2", "3", "4", "5"}
VersionChars == Digits \cup {".", "v"}
VersionStrings == UNION {[1..n -> VersionChars] : n \in 0..MaxVersionLen}
\* an absent and a null version argument (no version string has such an element)
NoVersion == <<"undefined">>
NullVersion == <<"null">>
VersionInputs == VersionStrings \cup {NoVersion, NullVersion}
\* an absent hint, and the numbers a caller can pass at run time
NoHint == -1
HintInputs == {NoHint, 0, 1, 2, 3, 4, 5}
\* the result of a coercion that found no version
NullSemVer == <<>>

DigitVal(ch) ==
    CASE ch = "0" -> 0 [] ch = "1" -> 1 [] ch = "2" -> 2
      [] ch = "3" -> 3 [] ch = "4" -> 4 [] ch = "5" -> 5

RECURSIVE NumVal(_)
NumVal(run) ==
    IF run = <<>> THEN 0
    ELSE 10 * NumVal(SubSeq(run, 1, Len(run) - 1)) + DigitVal(run[Len(run)])

IsDigitAt(s, i) == i >= 1 /\ i <= Len(s) /\ s[i] \in Digits

\* last index of the maximal digit run that starts at i
RunEnd(s, i) ==
    CHOOSE j \in i..Len(s) :
        /\ \A k \in i..j : s[k] \in Digits
        /\ ~IsDigitAt(s, j + 1)

DigitRun(s, i) == SubSeq(s, i, RunEnd(s, i))

\* the optional group (?:\.(\d+))? after a component that ends at index e
NextComponentStart(s, e) ==
    IF e + 1 <= Len(s) /\ s[e + 1] = "." /\ IsDigitAt(s, e + 2) THEN e + 2 ELSE 0

\* NUMERICIDENTIFIER of the strict grammar: 0|[1-9]\d*
StrictNumeric(run) == Len(run) = 1 \/ run[1] /= "0"

\* semver.coerce: the leftmost "major[.minor[.patch]]" of the string, parsed
\* strictly, as <<major, minor, patch>>; NullSemVer when the string holds no
\* digit or a component has a leading zero
coerce(version) ==
    IF ~\E i \in 1..Len(version) : version[i] \in Digits THEN NullSemVer
    ELSE
        LET m == CHOOSE i \in 1..Len(version) :
                    /\ version[i] \in Digits
                    /\ \A k \in 1..(i - 1) : version[k] \notin Digits
            majorRun == DigitRun(version, m)
            n == NextComponentStart(version, RunEnd(version, m))
            minorRun == IF n = 0 THEN <<"0">> ELSE DigitRun(version, n)
            p == IF n = 0 THEN 0 ELSE NextComponentStart(version, RunEnd(version, n))
            patchRun == IF p = 0 THEN <<"0">> ELSE DigitRun(version, p)
        IN  IF StrictNumeric(majorRun) /\ StrictNumeric(minorRun) /\ StrictNumeric(patchRun)
            THEN <<NumVal(majorRun), NumVal(minorRun), NumVal(patchRun)>>
            ELSE NullSemVer

\* JavaScript truthiness of the two arguments
TruthyVersion(version) == version /= NoVersion /\ version /= NullVersion /\ version /= <<>>
TruthyHint(hint) == hint /= NoHint /\ hint /= 0

\* resolveMajorVersion trusting the coerced major to be 2, 3 or 4
resolveMajorVersionRawMajor(version, hint) ==
    IF TruthyHint(hint) /\ hint \in {2, 3, 4} THEN hint
    ELSE IF TruthyVersion(version) /\ coerce(version) /= NullSemVer
         THEN coerce(version)[1]
         ELSE 3

\* resolveMajorVersion with the hint consulted last: a parsed version wins
resolveMajorVersionHintLast(version, hint) ==
    IF TruthyVersion(version) /\ coerce(version) /= NullSemVer
    THEN LET major == coerce(version)[1]
         IN  IF major = 2 \/ major = 3 \/ major = 4 THEN major
             ELSE IF major >= 4 THEN 4
             ELSE 3
    ELSE IF TruthyHint(hint) /\ hint \in {2, 3, 4} THEN hint
    ELSE 3

resolveMajorVersion(version, hint) ==
    IF TruthyHint(hint) /\ hint \in {2, 3, 4} THEN hint
    ELSE IF TruthyVersion(version) /\ coerce(version) /= NullSemVer
         THEN LET major == coerce(version)[1]
              IN  IF major = 2 \/ major = 3 \/ major = 4 THEN major
                  ELSE IF major >= 4 THEN 4
                  ELSE 3
         ELSE 3

\* ------------------------------------------------------------------- state
VARIABLES
    patcher,      \* the TailwindcssPatcher instance: its normalized options and major version
    cacheFile,    \* the persisted cache file behind the CacheStore
    outputFile,   \* the file at options.output.file
    calls,        \* per slot, one call of getClassSet / getClassSetSync / extract
    rmv,          \* an application of resolveMajorVersion: its arguments and result
    tokens,       \* the last collectContentTokens / collectContentTokensByFile call
    app           \* an application of an options adapter or of a command's output step,
                  \* or the strategies of the instances constructed so far

vars == <<patcher, cacheFile, outputFile, calls, rmv, tokens, app>>

NumSlots == 2
Slots == 1..NumSlots

Strategies == {"merge", "overwrite"}
Formats == {"json", "lines"}
OutputPath == "classes.json"
\* options.output.file: absent, the empty string, or a path
OutputFiles == {Undefined, "", OutputPath}
\* the `write` member of extract's argument: absent, true or false
WriteArgs == {Undefined, "true", "false"}
\* versions a resolved package.json carries
PackageVersions == {NoVersion, <<"2", ".", "1">>, <<"3">>, <<"4", ".", "0">>, <<"5">>}

NoPatcher ==
    [constructed |-> FALSE, threw |-> FALSE, packageInfo |-> "unresolved",
     cacheStore |-> FALSE, majorVersion |-> 0, v4 |-> "absent",
     cacheEnabled |-> FALSE, strategy |-> "merge",
     outputEnabled |-> FALSE, file |-> Undefined, format |-> "json",
     buildCompleted |-> FALSE]

\* ------------------------------------------------- CacheStore (cache/store)
CacheMissing == [state |-> "missing", classes |-> {}]
CacheCorrupt == [state |-> "corrupt", classes |-> {}]
CacheFiles == {CacheMissing, CacheCorrupt} \cup {[state |-> "ok", classes |-> c] : c \in ClassSets}

\* read / readSync: the stored set, empty when the file is missing or unparsable
CacheRead(file) == IF file.state = "ok" THEN file.classes ELSE {}

\* write / writeSync: the file holds exactly the given set
CacheWrite(set) == [state |-> "ok", classes |-> set]

\* the persisted set of class names
Persisted == CacheRead(cacheFile)

\* ------------------------------------------------------------------- calls
NoSet == {"undefined"}
NoList == <<"undefined">>

IdleCall ==
    [pc |-> "idle", op |-> "none", write |-> Undefined,
     set |-> NoSet, result |-> NoSet, classList |-> NoList, filename |-> Undefined,
     error |-> "none", trace |-> <<>>,
     observed |-> NoSet, startCache |-> CacheMissing, startOutput |-> "absent",
     builtBefore |-> FALSE]

\* a fresh call record: what the call finds when it is made
NewCall(op, write) ==
    [IdleCall EXCEPT !.op = op, !.write = write,
                     !.startCache = cacheFile, !.startOutput = outputFile,
                     !.builtBefore = patcher.buildCompleted]

InFlight(c) == c.pc \in {"building", "collecting", "reading", "writing", "outputting"}
NoneInFlight == \A s \in Slots : ~InFlight(calls[s])

Event(c, e) == [c EXCEPT !.trace = Append(@, e)]
Count(trace, e) == Cardinality({i \in 1..Len(trace) : trace[i] = e})
Has(trace, e) == \E i \in 1..Len(trace) : trace[i] = e

\* a rejected promise or a thrown error ends the call
Failed(c, e) == [c EXCEPT !.pc = "failed", !.error = e]

\* NeedsBuild behind a one-time gate: no build once one has completed
NeedsBuildOnce(majorVersion) ==
    (majorVersion = 2 \/ majorVersion = 3) /\ ~patcher.buildCompleted

\* NeedsBuild with the version test lost: the build runs for every version
NeedsBuildAny(majorVersion) == majorVersion \in {2, 3, 4}

\* runTailwindBuildIfNeeded: the build runs for major versions 2 and 3
NeedsBuild(majorVersion) == majorVersion = 2 \/ majorVersion = 3

\* SyncUnsupported with the version test lost: the synchronous path never throws
SyncUnsupportedNever(majorVersion) == FALSE

\* collectClassSetSync: the synchronous path throws for major version 4
SyncUnsupported(majorVersion) == majorVersion = 4

\* ShouldWrite with `||` in place of `??`: an explicit false falls through
ShouldWriteOr(write, outputEnabled) ==
    IF write = "true" THEN TRUE ELSE outputEnabled

\* extract: options?.write ?? this.options.output.enabled
ShouldWrite(write, outputEnabled) ==
    IF write = Undefined THEN outputEnabled ELSE write = "true"

\* extract: Array.from(classSet), each member once
RECURSIVE ArrayFrom(_)
ArrayFrom(classSet) ==
    IF classSet = {} THEN <<>>
    ELSE LET value == CHOOSE v \in classSet : TRUE
         IN  <<value>> \o ArrayFrom(classSet \ {value})

\* extract: the early return `!shouldWrite || !this.options.output.file`
SkipsOutput(write, p) ==
    ~ShouldWrite(write, p.outputEnabled) \/ p.file = Undefined \/ p.file = ""

\* getClassSet has resolved with `result`; extract goes on from there
Returned(c, result, p) ==
    LET r == [c EXCEPT !.result = result]
    IN  IF c.op /= "extract" THEN [r EXCEPT !.pc = "done"]
        ELSE LET e == [r EXCEPT !.classList = ArrayFrom(result)]
             IN  IF SkipsOutput(c.write, p) THEN [e EXCEPT !.pc = "done"]
                 ELSE Event([e EXCEPT !.pc = "outputting"], "output:start")

\* StartMerge with the `cache.enabled` test lost: the store is always used
StartMergeAlways(c, set, p) ==
    Event([c EXCEPT !.set = set, !.observed = set, !.pc = "reading"], "read:start")

\* mergeWithCache up to its first await
StartMerge(c, set, p) ==
    LET o == [c EXCEPT !.set = set, !.observed = set]
    IN  IF ~p.cacheEnabled THEN Returned(o, set, p)
        ELSE Event([o EXCEPT !.pc = "reading"], "read:start")

\* AfterRead with the `merge` branch lost: both strategies behave as overwrite
AfterReadNoMerge(c, existing, p) ==
    LET r == Event(c, "read:end")
    IN  IF Cardinality(c.set) > 0
        THEN Event([r EXCEPT !.pc = "writing"], "write:start")
        ELSE Returned(r, existing, p)

\* AfterRead with the `set.size > 0` test lost: overwrite always writes
AfterReadAlwaysWrite(c, existing, p) ==
    LET r == Event(c, "read:end")
    IN  IF p.strategy = "merge"
        THEN Event([r EXCEPT !.set = AddAll(c.set, existing), !.pc = "writing"], "write:start")
        ELSE Event([r EXCEPT !.pc = "writing"], "write:start")

\* mergeWithCache after `await this.cacheStore.read()`
AfterRead(c, existing, p) ==
    LET r == Event(c, "read:end")
    IN  IF p.strategy = "merge"
        THEN Event([r EXCEPT !.set = AddAll(c.set, existing), !.pc = "writing"], "write:start")
        ELSE IF Cardinality(c.set) > 0
             THEN Event([r EXCEPT !.pc = "writing"], "write:start")
             ELSE Returned(r, existing, p)

\* mergeWithCacheSync with the `set.size > 0` test lost: overwrite always writes
mergeWithCacheSyncAlwaysWrite(set, file, p) ==
    IF ~p.cacheEnabled THEN <<set, file, <<>>>>
    ELSE LET existing == CacheRead(file)
             rd == <<"read:start", "read:end">>
             wr == <<"write:start", "write:end">>
         IN  IF p.strategy = "merge"
             THEN LET merged == AddAll(set, existing)
                  IN  <<merged, CacheWrite(merged), rd \o wr>>
             ELSE <<set, CacheWrite(set), rd \o wr>>

\* mergeWithCacheSync returning the observed set where it writes nothing
mergeWithCacheSyncReturnsSet(set, file, p) ==
    IF ~p.cacheEnabled THEN <<set, file, <<>>>>
    ELSE LET existing == CacheRead(file)
             rd == <<"read:start", "read:end">>
             wr == <<"write:start", "write:end">>
         IN  IF p.strategy = "merge"
             THEN LET merged == AddAll(set, existing)
                  IN  <<merged, CacheWrite(merged), rd \o wr>>
             ELSE IF Cardinality(set) > 0
                  THEN <<set, CacheWrite(set), rd \o wr>>
                  ELSE <<set, file, rd>>

\* mergeWithCacheSync: <<returned set, cache file afterwards, store operations>>
mergeWithCacheSync(set, file, p) ==
    IF ~p.cacheEnabled THEN <<set, file, <<>>>>
    ELSE LET existing == CacheRead(file)
             rd == <<"read:start", "read:end">>
             wr == <<"write:start", "write:end">>
         IN  IF p.strategy = "merge"
             THEN LET merged == AddAll(set, existing)
                  IN  <<merged, CacheWrite(merged), rd \o wr>>
             ELSE IF Cardinality(set) > 0
                  THEN <<set, CacheWrite(set), rd \o wr>>
                  ELSE <<existing, file, rd>>

\* ----------------------------------------------------------------- actions
\* NewPatcher with the `!packageInfo` test lost: the constructor goes on
NewPatcherNoThrow(found, version, hint, cacheEnabled, strategy, outputEnabled, file, format) ==
    [constructed |-> TRUE, threw |-> FALSE,
     packageInfo |-> IF found THEN "found" ELSE "missing", cacheStore |-> TRUE,
     majorVersion |-> resolveMajorVersion(version, hint), v4 |-> "absent",
     cacheEnabled |-> cacheEnabled, strategy |-> strategy,
     outputEnabled |-> outputEnabled, file |-> file, format |-> format,
     buildCompleted |-> FALSE]

\* the instance the constructor leaves: none when getPackageInfoSync found no
\* package (it throws), else one with its major version and cache store
NewPatcher(found, version, hint, cacheEnabled, strategy, outputEnabled, file, format) ==
    IF ~found THEN [NoPatcher EXCEPT !.threw = TRUE, !.packageInfo = "missing"]
    ELSE [constructed |-> TRUE, threw |-> FALSE,
          packageInfo |-> "found", cacheStore |-> TRUE,
          majorVersion |-> resolveMajorVersion(version, hint), v4 |-> "absent",
          cacheEnabled |-> cacheEnabled, strategy |-> strategy,
          outputEnabled |-> outputEnabled, file |-> file, format |-> format,
          buildCompleted |-> FALSE]

\* new TailwindcssPatcher(options): options are the normalized options
Construct(found, version, hint, cacheEnabled, strategy, outputEnabled, file, format) ==
    /\ ~patcher.constructed
    /\ patcher' = NewPatcher(found, version, hint, cacheEnabled, strategy,
                             outputEnabled, file, format)
    /\ UNCHANGED <<cacheFile, outputFile, calls, rmv, tokens, app>>

\* getClassSet() / extract({write}) up to the first awaited step
Call(s, op, write) ==
    /\ patcher.constructed
    /\ ~InFlight(calls[s])
    /\ op \in {"getClassSet", "extract"}
    /\ op = "getClassSet" => write = Undefined
    /\ LET c == NewCall(op, write)
       IN  calls' = [calls EXCEPT ![s] =
                IF NeedsBuild(patcher.majorVersion)
                THEN Event([c EXCEPT !.pc = "building"], "build:start")
                ELSE Event([c EXCEPT !.pc = "collecting"], "collect:start")]
    /\ UNCHANGED <<patcher, cacheFile, outputFile, rmv, tokens, app>>

\* BuildFail with one retry: a first rejected build is started again
BuildFailRetry(s) ==
    /\ calls[s].pc = "building"
    /\ calls' = [calls EXCEPT ![s] =
            IF Count(@.trace, "build:start") < 2
            THEN Event(Event(@, "build:fail"), "build:start")
            ELSE Failed(Event(@, "build:fail"), "build")]
    /\ UNCHANGED <<patcher, cacheFile, outputFile, rmv, tokens, app>>

\* runTailwindBuild rejects
BuildFail(s) ==
    /\ calls[s].pc = "building"
    /\ calls' = [calls EXCEPT ![s] = Failed(Event(@, "build:fail"), "build")]
    /\ UNCHANGED <<patcher, cacheFile, outputFile, rmv, tokens, app>>

\* runTailwindBuild resolves; collectClassSet (v2/v3) runs synchronously:
\* getContexts and collectClassesFromContexts yield `set` or throw
BuildDone(s, collected, set) ==
    /\ calls[s].pc = "building"
    /\ patcher' = [patcher EXCEPT !.buildCompleted = TRUE]
    /\ LET b == Event(Event(calls[s], "build:end"), "collect:start")
       IN  calls' = [calls EXCEPT ![s] =
                IF collected THEN StartMerge(Event(b, "collect:end"), set, patcher)
                ELSE Failed(Event(b, "collect:fail"), "collect")]
    /\ UNCHANGED <<cacheFile, outputFile, rmv, tokens, app>>

\* collectClassesFromTailwindV4 rejects
CollectFail(s) ==
    /\ calls[s].pc = "collecting"
    /\ calls' = [calls EXCEPT ![s] = Failed(Event(@, "collect:fail"), "collect")]
    /\ UNCHANGED <<patcher, cacheFile, outputFile, rmv, tokens, app>>

\* collectClassesFromTailwindV4 resolves with `set`
CollectDone(s, set) ==
    /\ calls[s].pc = "collecting"
    /\ calls' = [calls EXCEPT ![s] = StartMerge(Event(@, "collect:end"), set, patcher)]
    /\ UNCHANGED <<patcher, cacheFile, outputFile, rmv, tokens, app>>

\* cacheStore.read() resolves
ReadDone(s) ==
    /\ calls[s].pc = "reading"
    /\ calls' = [calls EXCEPT ![s] = AfterRead(@, CacheRead(cacheFile), patcher)]
    /\ UNCHANGED <<patcher, cacheFile, outputFile, rmv, tokens, app>>

\* WriteDone persisting the observed classes instead of the merged set
WriteDoneObserved(s) ==
    /\ calls[s].pc = "writing"
    /\ cacheFile' = CacheWrite(calls[s].observed)
    /\ calls' = [calls EXCEPT ![s] = Returned(Event(@, "write:end"), @.observed, patcher)]
    /\ UNCHANGED <<patcher, outputFile, rmv, tokens, app>>

\* cacheStore.write(set) resolves
WriteDone(s) ==
    /\ calls[s].pc = "writing"
    /\ cacheFile' = CacheWrite(calls[s].set)
    /\ calls' = [calls EXCEPT ![s] = Returned(Event(@, "write:end"), @.set, patcher)]
    /\ UNCHANGED <<patcher, outputFile, rmv, tokens, app>>

\* extract: ensureDir, then writeJSON or writeFile, resolve
OutputDone(s) ==
    /\ calls[s].pc = "outputting"
    /\ outputFile' = IF patcher.format = "json" THEN "json" ELSE "lines"
    /\ calls' = [calls EXCEPT ![s] =
            Event([@ EXCEPT !.pc = "done", !.filename = patcher.file], "output:end")]
    /\ UNCHANGED <<patcher, cacheFile, rmv, tokens, app>>

\* getClassSetSync(): runs to completion in one step
GetClassSetSync(s, collected, set) ==
    /\ patcher.constructed
    /\ ~InFlight(calls[s])
    /\ LET c == NewCall("getClassSetSync", Undefined)
       IN  IF SyncUnsupported(patcher.majorVersion)
           THEN /\ calls' = [calls EXCEPT ![s] = Failed(c, "unsupported-v4")]
                /\ UNCHANGED cacheFile
           ELSE IF ~collected
           THEN /\ calls' = [calls EXCEPT ![s] =
                        Failed(Event(Event(c, "collect:start"), "collect:fail"), "collect")]
                /\ UNCHANGED cacheFile
           ELSE LET m == mergeWithCacheSync(set, cacheFile, patcher)
                    t == <<"collect:start", "collect:end">> \o m[3]
                IN  /\ calls' = [calls EXCEPT ![s] =
                            [c EXCEPT !.pc = "done", !.set = m[1], !.observed = set,
                                      !.result = m[1], !.trace = t]]
                    /\ cacheFile' = m[2]
    /\ UNCHANGED <<patcher, outputFile, rmv, tokens, app>>

\* ------------------------------------------------- instances sharing a cache
MaxInstances == 3

\* new TailwindcssPatcher(options) with the cache enabled, over the cache file
\* the instances before it have left: the strategies of the instances so far
\* are kept in app.instances
NewInstance(version, strategy) ==
    /\ NoneInFlight
    /\ app.fn = "new TailwindcssPatcher"
    /\ Len(app.instances) < MaxInstances
    /\ patcher' = NewPatcher(TRUE, version, NoHint, TRUE, strategy, FALSE, Undefined, "json")
    /\ calls' = [s \in Slots |-> IdleCall]
    /\ app' = [app EXCEPT !.instances = Append(@, strategy)]
    /\ UNCHANGED <<cacheFile, outputFile, rmv, tokens>>

\* --------------------------------------------------------- token collection
\* options.projectRoot
ProjectRoot == "/project"
\* options.tailwind.v4: absent, without sources, or with sources
V4Options == {"absent", "no-sources", "sources"}
\* the cwd and sources members of the argument: absent or given
CwdArgs == {Undefined, "/other"}
SourcesArgs == {Undefined, "arg-sources"}
\* the key and stripAbsolutePaths members of the argument
KeyArgs == {Undefined, "absolute"}
StripArgs == {Undefined, "true"}

\* options?.cwd ?? this.options.projectRoot
TokenCwd(cwdArg) == IF cwdArg /= Undefined THEN cwdArg ELSE ProjectRoot

\* TokenSources with the middle operand lost: tailwind.v4.sources is not used
TokenSourcesNoV4(sourcesArg, p) ==
    IF sourcesArg /= Undefined THEN sourcesArg ELSE "[]"

\* options?.sources ?? this.options.tailwind.v4?.sources ?? []
TokenSources(sourcesArg, p) ==
    IF sourcesArg /= Undefined THEN sourcesArg
    ELSE IF p.v4 = "sources" THEN "v4-sources"
    ELSE "[]"

\* collectContentTokens(options): the call of extractProjectCandidatesWithPositions
CollectContentTokens(cwdArg, sourcesArg) ==
    /\ patcher.constructed
    /\ tokens' = [op |-> "collectContentTokens",
                  cwdArg |-> cwdArg, sourcesArg |-> sourcesArg,
                  cwd |-> TokenCwd(cwdArg), sources |-> TokenSources(sourcesArg, patcher),
                  key |-> Undefined, stripAbsolutePaths |-> Undefined]
    /\ UNCHANGED <<patcher, cacheFile, outputFile, calls, rmv, app>>

\* collectContentTokensByFile(options): collectContentTokens, then groupTokensByFile
CollectContentTokensByFile(cwdArg, sourcesArg, key, strip) ==
    /\ patcher.constructed
    /\ tokens' = [op |-> "collectContentTokensByFile",
                  cwdArg |-> cwdArg, sourcesArg |-> sourcesArg,
                  cwd |-> TokenCwd(cwdArg), sources |-> TokenSources(sourcesArg, patcher),
                  key |-> key, stripAbsolutePaths |-> strip]
    /\ UNCHANGED <<patcher, cacheFile, outputFile, calls, rmv, app>>

\* ------------------------------------------------------- options adapters
\* An options object is a function from the paths of its members to their
\* values; a member that is itself an object has the value "{}". An input
\* member's value is the name of its path, so that a result tells where each
\* of its values came from.
Get(object, path) == IF path \in DOMAIN object THEN object[path] ELSE Undefined
Has_(object, path) == path \in DOMAIN object

\* an object with the member `parent` holding some of `children`, or without it
Members(parent, children) ==
    {{}} \cup {{parent} \cup c : c \in SUBSET children}

ObjectPaths == {"output", "tailwind", "cache", "patch", "patch.output",
                "patch.applyPatches", "patch.tailwindcss",
                "tailwind.v2", "tailwind.v3"}

ObjectOf(paths) == [path \in paths |-> IF path \in ObjectPaths THEN "{}" ELSE path]

\* the unified registry configurations: { output?, tailwind? }
UnifiedInputs ==
    {ObjectOf(o \cup t) :
        o \in Members("output", {"output.file", "output.pretty",
                                 "output.stripUniversalSelector"}),
        t \in Members("tailwind", {"tailwind.version", "tailwind.package",
                                   "tailwind.resolve", "tailwind.next",
                                   "tailwind.cwd", "tailwind.config"})}

\* fromUnifiedConfig without the members it sets to undefined
fromUnifiedConfigSparse(registry) ==
    LET output == IF Has_(registry, "output")
                  THEN [path \in {"output.file", "output.pretty",
                                  "output.removeUniversalSelector"} |->
                          CASE path = "output.file" -> Get(registry, "output.file")
                            [] path = "output.pretty" -> Get(registry, "output.pretty")
                            [] path = "output.removeUniversalSelector" ->
                                   Get(registry, "output.stripUniversalSelector")]
                  ELSE <<>>
        tailwind == IF Has_(registry, "tailwind")
                    THEN [path \in {"tailwind.version", "tailwind.packageName",
                                    "tailwind.resolve", "tailwind.v4"} |->
                          CASE path = "tailwind.version" -> Get(registry, "tailwind.version")
                            [] path = "tailwind.packageName" -> Get(registry, "tailwind.package")
                            [] path = "tailwind.resolve" -> Get(registry, "tailwind.resolve")
                            [] path = "tailwind.v4" -> Get(registry, "tailwind.next")]
                    ELSE <<>>
    IN  [path \in DOMAIN output \cup DOMAIN tailwind |->
            IF path \in DOMAIN output THEN output[path] ELSE tailwind[path]]

\* fromUnifiedConfig (options/legacy): the patcher options of a registry
fromUnifiedConfig(registry) ==
    LET output == IF Has_(registry, "output")
                  THEN [path \in {"output.file", "output.pretty",
                                  "output.removeUniversalSelector"} |->
                          CASE path = "output.file" -> Get(registry, "output.file")
                            [] path = "output.pretty" -> Get(registry, "output.pretty")
                            [] path = "output.removeUniversalSelector" ->
                                   Get(registry, "output.stripUniversalSelector")]
                  ELSE <<>>
        tailwind == IF Has_(registry, "tailwind")
                    THEN [path \in {"tailwind.version", "tailwind.packageName",
                                    "tailwind.resolve", "tailwind.config", "tailwind.cwd",
                                    "tailwind.v2", "tailwind.v3", "tailwind.v4"} |->
                          CASE path = "tailwind.version" -> Get(registry, "tailwind.version")
                            [] path = "tailwind.packageName" -> Get(registry, "tailwind.package")
                            [] path = "tailwind.resolve" -> Get(registry, "tailwind.resolve")
                            [] path = "tailwind.config" -> Get(registry, "tailwind.config")
                            [] path = "tailwind.cwd" -> Get(registry, "tailwind.cwd")
                            [] path = "tailwind.v2" -> Undefined
                            [] path = "tailwind.v3" -> Undefined
                            [] path = "tailwind.v4" -> Get(registry, "tailwind.next")]
                    ELSE <<>>
    IN  [path \in DOMAIN output \cup DOMAIN tailwind |->
            IF path \in DOMAIN output THEN output[path] ELSE tailwind[path]]

\* the legacy options: { cache?, patch: { output?, applyPatches?, tailwindcss? } }
LegacyInputs ==
    {ObjectOf({"patch"} \cup c \cup o \cup a \cup t) :
        c \in Members("cache", {"cache.dir", "cache.file"}),
        o \in Members("patch.output", {"patch.output.filename", "patch.output.loose",
                                       "patch.output.removeUniversalSelector"}),
        a \in Members("patch.applyPatches", {"patch.applyPatches.extendLengthUnits"}),
        t \in Members("patch.tailwindcss", {"patch.tailwindcss.version",
                                            "patch.tailwindcss.v3"})}

\* options of the current shape: { output?, cache?, tailwind? }
CurrentInputs ==
    {ObjectOf(o \cup c \cup t) :
        o \in Members("output", {"output.file"}),
        c \in Members("cache", {"cache.dir"}),
        t \in Members("tailwind", {"tailwind.version"})}

\* fromLegacyOptions (options/legacy): the patcher options of legacy options
fromLegacyOptions(options) ==
    LET output == IF Has_(options, "patch.output")
                  THEN [path \in {"output", "output.file", "output.removeUniversalSelector"} |->
                          CASE path = "output" -> "{}"
                            [] path = "output.file" -> Get(options, "patch.output.filename")
                            [] path = "output.removeUniversalSelector" ->
                                   Get(options, "patch.output.removeUniversalSelector")]
                  ELSE <<>>
        cache == IF Has_(options, "cache")
                 THEN [path \in {"cache", "cache.dir", "cache.file", "cache.enabled"} |->
                          CASE path = "cache" -> "{}"
                            [] path = "cache.dir" -> Get(options, "cache.dir")
                            [] path = "cache.file" -> Get(options, "cache.file")
                            [] path = "cache.enabled" -> "true"]
                 ELSE <<>>
        rest == [path \in {"features", "features.extendLengthUnits",
                           "tailwind", "tailwind.version", "tailwind.v3"} |->
                    CASE path \in {"features", "tailwind"} -> "{}"
                      [] path = "features.extendLengthUnits" ->
                             Get(options, "patch.applyPatches.extendLengthUnits")
                      [] path = "tailwind.version" -> Get(options, "patch.tailwindcss.version")
                      [] path = "tailwind.v3" -> Get(options, "patch.tailwindcss.v3")]
    IN  [path \in DOMAIN output \cup DOMAIN cache \cup DOMAIN rest |->
            IF path \in DOMAIN output THEN output[path]
            ELSE IF path \in DOMAIN cache THEN cache[path]
            ELSE rest[path]]

\* the constructor taking options for legacy ones when they have a cache
resolvedOptionsByCache(options) ==
    IF Has_(options, "cache") THEN fromLegacyOptions(options) ELSE options

\* the constructor's resolvedOptions, which it hands to normalizeOptions
resolvedOptions(options) ==
    IF Has_(options, "patch") THEN fromLegacyOptions(options) ELSE options

\* the head of the constructor applied to the drawn options
ApplyConstructorOptions ==
    /\ app.fn = "constructor" /\ ~app.applied
    /\ app' = [app EXCEPT !.applied = TRUE, !.result = resolvedOptions(app.input)]
    /\ UNCHANGED <<patcher, cacheFile, outputFile, calls, rmv, tokens>>

\* one application of fromUnifiedConfig to the drawn registry
ApplyFromUnifiedConfig ==
    /\ app.fn = "fromUnifiedConfig" /\ ~app.applied
    /\ app' = [app EXCEPT !.applied = TRUE, !.result = fromUnifiedConfig(app.input)]
    /\ UNCHANGED <<patcher, cacheFile, outputFile, calls, rmv, tokens>>

\* ----------------------------------------------- options of the legacy build
\* the normalized options' tailwind member: { cwd?, config?, postcssPlugin?, v2?, v3? }
NormalizedTailwinds ==
    {ObjectOf({"tailwind"} \cup b \cup v2 \cup v3) :
        b \in SUBSET {"tailwind.cwd", "tailwind.config", "tailwind.postcssPlugin"},
        v2 \in Members("tailwind.v2", {"tailwind.v2.cwd", "tailwind.v2.config",
                                      "tailwind.v2.postcssPlugin"}),
        v3 \in Members("tailwind.v3", {"tailwind.v3.cwd", "tailwind.v3.config",
                                      "tailwind.v3.postcssPlugin"})}

\* a ?? b
Coalesce(a, b) == IF a /= Undefined THEN a ELSE b

\* resolveTailwindExecutionOptions taking whichever sub-config there is
resolveTailwindExecutionOptionsAnyVersion(normalized, majorVersion) ==
    IF Has_(normalized, "tailwind.v2")
    THEN [cwd |-> Coalesce(Get(normalized, "tailwind.v2.cwd"),
                           Coalesce(Get(normalized, "tailwind.cwd"), ProjectRoot)),
          config |-> Coalesce(Get(normalized, "tailwind.v2.config"),
                              Get(normalized, "tailwind.config")),
          postcssPlugin |-> Coalesce(Get(normalized, "tailwind.v2.postcssPlugin"),
                                     Get(normalized, "tailwind.postcssPlugin"))]
    ELSE IF Has_(normalized, "tailwind.v3")
    THEN [cwd |-> Coalesce(Get(normalized, "tailwind.v3.cwd"),
                           Coalesce(Get(normalized, "tailwind.cwd"), ProjectRoot)),
          config |-> Coalesce(Get(normalized, "tailwind.v3.config"),
                              Get(normalized, "tailwind.config")),
          postcssPlugin |-> Coalesce(Get(normalized, "tailwind.v3.postcssPlugin"),
                                     Get(normalized, "tailwind.postcssPlugin"))]
    ELSE [cwd |-> Coalesce(Get(normalized, "tailwind.cwd"), ProjectRoot),
          config |-> Get(normalized, "tailwind.config"),
          postcssPlugin |-> Get(normalized, "tailwind.postcssPlugin")]

resolveTailwindExecutionOptions(normalized, majorVersion) ==
    IF majorVersion = 2 /\ Has_(normalized, "tailwind.v2")
    THEN [cwd |-> Coalesce(Get(normalized, "tailwind.v2.cwd"),
                           Coalesce(Get(normalized, "tailwind.cwd"), ProjectRoot)),
          config |-> Coalesce(Get(normalized, "tailwind.v2.config"),
                              Get(normalized, "tailwind.config")),
          postcssPlugin |-> Coalesce(Get(normalized, "tailwind.v2.postcssPlugin"),
                                     Get(normalized, "tailwind.postcssPlugin"))]
    ELSE IF majorVersion = 3 /\ Has_(normalized, "tailwind.v3")
    THEN [cwd |-> Coalesce(Get(normalized, "tailwind.v3.cwd"),
                           Coalesce(Get(normalized, "tailwind.cwd"), ProjectRoot)),
          config |-> Coalesce(Get(normalized, "tailwind.v3.config"),
                              Get(normalized, "tailwind.config")),
          postcssPlugin |-> Coalesce(Get(normalized, "tailwind.v3.postcssPlugin"),
                                     Get(normalized, "tailwind.postcssPlugin"))]
    ELSE [cwd |-> Coalesce(Get(normalized, "tailwind.cwd"), ProjectRoot),
          config |-> Get(normalized, "tailwind.config"),
          postcssPlugin |-> Get(normalized, "tailwind.postcssPlugin")]

NoBuild == [cwd |-> Undefined, config |-> Undefined, postcssPlugin |-> Undefined]

\* runTailwindBuildIfNeeded up to its call of runTailwindBuild, whose
\* arguments it records
RunTailwindBuildIfNeeded ==
    /\ app.fn = "runTailwindBuildIfNeeded" /\ ~app.applied
    /\ app' = [app EXCEPT !.applied = TRUE,
                          !.built = app.majorVersion \in {2, 3},
                          !.result = IF app.majorVersion \in {2, 3}
                                     THEN resolveTailwindExecutionOptions(app.input,
                                                                          app.majorVersion)
                                     ELSE NoBuild]
    /\ UNCHANGED <<patcher, cacheFile, outputFile, calls, rmv, tokens>>

\* ------------------------------------------------------- the tokens command
\* A text is a sequence of pieces; the piece "\n" is a newline and no other
\* piece holds one.
MaxEntries == 2

TokenEntries ==
    {[relativeFile |-> f, line |-> l, column |-> 1, rawCandidate |-> c,
      start |-> l * 10, end |-> l * 10 + 4] :
        f \in {"src/a.html", "src/b.tsx"}, l \in {1, 7}, c \in {"flex"}}

Reports == UNION {[1..n -> TokenEntries] : n \in 0..MaxEntries}

TOKEN_FORMATS == {"json", "lines", "grouped-json"}
FormatArgs == {Undefined, "json", "lines", "grouped-json", "yaml"}

formatTokenLine(entry) ==
    entry.relativeFile \o ":" \o ToString(entry.line) \o ":" \o ToString(entry.column)
        \o " " \o entry.rawCandidate
        \o " (" \o ToString(entry.start) \o "-" \o ToString(entry.end) \o ")"

\* lines.join('\n')
RECURSIVE join(_)
join(lines) ==
    IF lines = <<>> THEN <<>>
    ELSE IF Len(lines) = 1 THEN <<lines[1]>>
    ELSE <<lines[1], "\n">> \o join(Tail(lines))

\* the text the lines format writes: `${lines.join('\n')}\n`
LinesText(entries) ==
    LET lines == [i \in 1..Len(entries) |-> formatTokenLine(entries[i])]
    IN  join(lines) \o <<"\n">>

\* the tokens action from the collected report to the written file
TokensCommand(entries, formatArg, writeArg) ==
    LET shouldWrite == IF writeArg = "undefined" THEN TRUE ELSE writeArg = "true"
        format == IF formatArg = Undefined \/ formatArg \notin TOKEN_FORMATS
                  THEN "json" ELSE formatArg
    IN  /\ app.fn = "tokens" /\ ~app.applied
        /\ app.entries = entries /\ app.formatArg = formatArg /\ app.writeArg = writeArg
        /\ app' = [app EXCEPT !.applied = TRUE,
                              !.format = format,
                              !.written = shouldWrite,
                              !.text = IF ~shouldWrite THEN <<>>
                                       ELSE IF format = "json" THEN <<"{report}">>
                                       ELSE IF format = "grouped-json" THEN <<"{grouped}">>
                                       ELSE LinesText(entries)]
        /\ UNCHANGED <<patcher, cacheFile, outputFile, calls, rmv, tokens>>

\* one application of resolveMajorVersion to the drawn arguments
ApplyResolve ==
    /\ rmv.result = 0
    /\ rmv' = [rmv EXCEPT !.result = resolveMajorVersion(rmv.version, rmv.hint)]
    /\ UNCHANGED <<patcher, cacheFile, outputFile, calls, tokens, app>>

\* ---------------------------------------------------------- specifications
NoResolve == [version |-> NoVersion, hint |-> NoHint, result |-> 0]
NoTokens == [op |-> "none"]
NoApp == [fn |-> "none"]

Init ==
    /\ patcher = NoPatcher
    /\ cacheFile \in CacheFiles
    /\ outputFile = "absent"
    /\ calls = [s \in Slots |-> IdleCall]
    /\ rmv = NoResolve
    /\ tokens = NoTokens
    /\ app = NoApp

\* calls of one patcher that do not overlap: a call starts when none is in flight
Next ==
    \/ \E found \in BOOLEAN, version \in PackageVersions, hint \in {NoHint, 2, 3, 4},
          cacheEnabled \in BOOLEAN, strategy \in Strategies,
          outputEnabled \in BOOLEAN, file \in OutputFiles, format \in Formats :
            Construct(found, version, hint, cacheEnabled, strategy, outputEnabled, file, format)
    \/ \E op \in {"getClassSet", "extract"}, write \in WriteArgs :
            NoneInFlight /\ Call(1, op, write)
    \/ \E collected \in BOOLEAN, set \in ClassSets :
            NoneInFlight /\ GetClassSetSync(1, collected, set)
    \/ \E s \in Slots : BuildFail(s)
    \/ \E s \in Slots, collected \in BOOLEAN, set \in ClassSets : BuildDone(s, collected, set)
    \/ \E s \in Slots : CollectFail(s)
    \/ \E s \in Slots, set \in ClassSets : CollectDone(s, set)
    \/ \E s \in Slots : ReadDone(s)
    \/ \E s \in Slots : WriteDone(s)
    \/ \E s \in Slots : OutputDone(s)

Spec == Init /\ [][Next]_vars

\* resolveMajorVersion applied to every version string and hint within the bounds
InitVersion ==
    /\ patcher = NoPatcher
    /\ cacheFile = CacheMissing
    /\ outputFile = "absent"
    /\ calls = [s \in Slots |-> IdleCall]
    /\ \E version \in VersionInputs, hint \in HintInputs :
            rmv = [version |-> version, hint |-> hint, result |-> 0]
    /\ tokens = NoTokens
    /\ app = NoApp

NextVersion == ApplyResolve

SpecVersion == InitVersion /\ [][NextVersion]_vars

\* token collection interleaved with the class-set calls of one patcher
InitTokens ==
    /\ \E version \in PackageVersions, cacheEnabled \in BOOLEAN,
          strategy \in Strategies, v4 \in V4Options :
            patcher = [NewPatcher(TRUE, version, NoHint, cacheEnabled, strategy,
                                  FALSE, Undefined, "json") EXCEPT !.v4 = v4]
    /\ cacheFile \in CacheFiles
    /\ outputFile = "absent"
    /\ calls = [s \in Slots |-> IdleCall]
    /\ rmv = NoResolve
    /\ tokens = NoTokens
    /\ app = NoApp

NextTokens ==
    \/ \E cwdArg \in CwdArgs, sourcesArg \in SourcesArgs :
            CollectContentTokens(cwdArg, sourcesArg)
    \/ \E cwdArg \in CwdArgs, sourcesArg \in SourcesArgs, key \in KeyArgs, strip \in StripArgs :
            CollectContentTokensByFile(cwdArg, sourcesArg, key, strip)
    \/ NoneInFlight /\ Call(1, "getClassSet", Undefined)
    \/ \E set \in ClassSets : NoneInFlight /\ GetClassSetSync(1, TRUE, set)
    \/ BuildFail(1)
    \/ \E set \in ClassSets : BuildDone(1, TRUE, set)
    \/ CollectFail(1)
    \/ \E set \in ClassSets : CollectDone(1, set)
    \/ ReadDone(1)
    \/ WriteDone(1)

SpecTokens == InitTokens /\ [][NextTokens]_vars

\* getClassSet calls of one patcher that overlap: each slot makes one call, the
\* slots start in their order, and every await of a call may be followed by a
\* step of another
InitOverlap ==
    /\ \E version \in {<<"3">>, <<"4", ".", "0">>}, strategy \in Strategies :
            patcher = NewPatcher(TRUE, version, NoHint, TRUE, strategy,
                                 FALSE, Undefined, "json")
    /\ cacheFile \in CacheFiles
    /\ outputFile = "absent"
    /\ calls = [s \in Slots |-> IdleCall]
    /\ rmv = NoResolve
    /\ tokens = NoTokens
    /\ app = NoApp

NextOverlap ==
    \/ \E s \in Slots :
            /\ calls[s].pc = "idle"
            /\ \A t \in Slots : t < s => calls[t].pc /= "idle"
            /\ Call(s, "getClassSet", Undefined)
    \/ \E s \in Slots : BuildFail(s)
    \/ \E s \in Slots, set \in ClassSets : BuildDone(s, TRUE, set)
    \/ \E s \in Slots : CollectFail(s)
    \/ \E s \in Slots, set \in ClassSets : CollectDone(s, set)
    \/ \E s \in Slots : ReadDone(s)
    \/ \E s \in Slots : WriteDone(s)

SpecOverlap == InitOverlap /\ [][NextOverlap]_vars

\* patcher instances one after another over one cache file, each making
\* calls that do not overlap
InitHistory ==
    /\ patcher = NoPatcher
    /\ cacheFile \in CacheFiles
    /\ outputFile = "absent"
    /\ calls = [s \in Slots |-> IdleCall]
    /\ rmv = NoResolve
    /\ tokens = NoTokens
    /\ app = [fn |-> "new TailwindcssPatcher", instances |-> <<>>]

NextHistory ==
    \/ \E version \in {<<"3">>, <<"4", ".", "0">>}, strategy \in Strategies :
            NewInstance(version, strategy)
    \/ NoneInFlight /\ Call(1, "getClassSet", Undefined)
    \/ \E set \in ClassSets : NoneInFlight /\ GetClassSetSync(1, TRUE, set)
    \/ BuildFail(1)
    \/ \E set \in ClassSets : BuildDone(1, TRUE, set)
    \/ CollectFail(1)
    \/ \E set \in ClassSets : CollectDone(1, set)
    \/ ReadDone(1)
    \/ WriteDone(1)

SpecHistory == InitHistory /\ [][NextHistory]_vars

\* the options adapters applied to every input within the bounds
InitOptions ==
    /\ patcher = NoPatcher
    /\ cacheFile = CacheMissing
    /\ outputFile = "absent"
    /\ calls = [s \in Slots |-> IdleCall]
    /\ rmv = NoResolve
    /\ tokens = NoTokens
    /\ \/ \E input \in UnifiedInputs :
                app = [fn |-> "fromUnifiedConfig", input |-> input,
                       applied |-> FALSE, result |-> <<>>]
       \/ \E input \in LegacyInputs \cup CurrentInputs :
                app = [fn |-> "constructor", input |-> input,
                       applied |-> FALSE, result |-> <<>>]

NextOptions ==
    \/ ApplyFromUnifiedConfig
    \/ ApplyConstructorOptions

SpecOptions == InitOptions /\ [][NextOptions]_vars

\* the legacy build's options for every tailwind member and major version
InitExec ==
    /\ patcher = NoPatcher
    /\ cacheFile = CacheMissing
    /\ outputFile = "absent"
    /\ calls = [s \in Slots |-> IdleCall]
    /\ rmv = NoResolve
    /\ tokens = NoTokens
    /\ \E input \in NormalizedTailwinds, majorVersion \in {2, 3, 4} :
            app = [fn |-> "runTailwindBuildIfNeeded", input |-> input,
                   majorVersion |-> majorVersion, applied |-> FALSE,
                   built |-> FALSE, result |-> NoBuild]

NextExec == RunTailwindBuildIfNeeded

SpecExec == InitExec /\ [][NextExec]_vars

\* the tokens command on every report within the bounds
InitCli ==
    /\ patcher = NoPatcher
    /\ cacheFile = CacheMissing
    /\ outputFile = "absent"
    /\ calls = [s \in Slots |-> IdleCall]
    /\ rmv = NoResolve
    /\ tokens = NoTokens
    /\ \E entries \in Reports, formatArg \in FormatArgs, writeArg \in WriteArgs :
            app = [fn |-> "tokens", entries |-> entries, formatArg |-> formatArg,
                   writeArg |-> writeArg, applied |-> FALSE, format |-> "json",
                   written |-> FALSE, text |-> <<>>]

NextCli ==
    \E entries \in Reports, formatArg \in FormatArgs, writeArg \in WriteArgs :
        TokensCommand(entries, formatArg, writeArg)

SpecCli == InitCli /\ [][NextCli]_vars

\* ------------------------------------------------------------- properties
MergeOn == patcher.constructed /\ patcher.cacheEnabled /\ patcher.strategy = "merge"
OverwriteOn == patcher.constructed /\ patcher.cacheEnabled /\ patcher.strategy = "overwrite"

\* the call has reconciled its observed set with the cache and returned from
\* getClassSet / getClassSetSync
Reconciled(c) == c.pc \in {"done", "outputting"}

\* the persisted set the call found: P
Found(c) == CacheRead(c.startCache)

\* C1: with the cache enabled and strategy merge, a reconciliation that found
\* P persisted and observed O returns P \cup O and leaves P \cup O persisted,
\* and the union is written even when O is empty.
C1_MergeLaw ==
    \A s \in Slots :
        (MergeOn /\ Reconciled(calls[s])) =>
            /\ calls[s].result = Found(calls[s]) \cup calls[s].observed
            /\ Persisted = Found(calls[s]) \cup calls[s].observed
            /\ cacheFile.state = "ok"
            /\ Count(calls[s].trace, "write:end") = 1

\* a merge reconciliation with nothing observed over a non-empty cache
C1_Witness ==
    \E s \in Slots :
        /\ MergeOn /\ calls[s].pc = "done" /\ calls[s].op = "getClassSet"
        /\ calls[s].observed = {} /\ Found(calls[s]) /= {}
        /\ Has(calls[s].trace, "write:end")

\* C2: with the cache enabled and strategy overwrite, a non-empty observed set
\* O replaces the persisted set and is returned; an empty O writes nothing,
\* leaves the cache file as found and returns the persisted set P.
C2_OverwriteLaw ==
    \A s \in Slots :
        (OverwriteOn /\ Reconciled(calls[s])) =>
            IF calls[s].observed /= {}
            THEN /\ Persisted = calls[s].observed
                 /\ cacheFile = CacheWrite(calls[s].observed)
                 /\ calls[s].result = calls[s].observed
            ELSE /\ ~Has(calls[s].trace, "write:start")
                 /\ cacheFile = calls[s].startCache
                 /\ calls[s].result = Found(calls[s])

\* an overwrite reconciliation with nothing observed over a non-empty cache
C2_Witness ==
    \E s \in Slots :
        /\ OverwriteOn /\ calls[s].pc = "done"
        /\ calls[s].observed = {} /\ Found(calls[s]) /= {}
        /\ calls[s].result = Found(calls[s])

\* C3: with the cache enabled and strategy merge, no step of a sequence of
\* non-overlapping calls removes a class from the persisted set, and a call
\* that returns, returns every class persisted so far.
C3_MonotonicGrowth ==
    [][MergeOn =>
        /\ Persisted \subseteq Persisted'
        /\ \A s \in Slots :
            Reconciled(calls'[s]) =>
                (Persisted \subseteq calls'[s].result /\ Persisted' \subseteq calls'[s].result)
      ]_vars

\* a merge call that observed none of the classes persisted before it, done
C3_Witness ==
    \E s \in Slots :
        /\ MergeOn /\ calls[s].pc = "done"
        /\ Found(calls[s]) /= {} /\ calls[s].observed /= {}
        /\ Found(calls[s]) \cap calls[s].observed = {}
        /\ Found(calls[s]) \subseteq Persisted

Legacy == patcher.constructed /\ patcher.majorVersion \in {2, 3}
Async(c) == c.op \in {"getClassSet", "extract"}

C5_CacheDisabled ==
    \A s \in Slots :
        (patcher.constructed /\ ~patcher.cacheEnabled /\ Reconciled(calls[s])) =>
            /\ calls[s].result = calls[s].observed
            /\ ~Has(calls[s].trace, "read:start")
            /\ ~Has(calls[s].trace, "write:start")
            /\ cacheFile = calls[s].startCache

\* a call with the cache disabled that observed other classes than persisted
C5_Witness ==
    \E s \in Slots :
        /\ patcher.constructed /\ ~patcher.cacheEnabled /\ calls[s].pc = "done"
        /\ Found(calls[s]) /= {}
        /\ ~(Found(calls[s]) \subseteq calls[s].observed)
        /\ calls[s].result = calls[s].observed

\* C6: getClassSetSync on a major version 4 patcher fails with the
\* unsupported-for-v4 error before any step: nothing is collected, the store
\* is not used and the cache file is as found; on major versions 2 and 3 it
\* never fails with that error.
C6_SyncUnsupportedV4 ==
    \A s \in Slots :
        (patcher.constructed /\ calls[s].op = "getClassSetSync") =>
            IF patcher.majorVersion = 4
            THEN /\ calls[s].pc = "failed"
                 /\ calls[s].error = "unsupported-v4"
                 /\ calls[s].trace = <<>>
                 /\ calls[s].result = NoSet
                 /\ cacheFile = calls[s].startCache
            ELSE calls[s].error /= "unsupported-v4"

\* getClassSetSync has failed on a version 4 patcher over a non-empty cache
C6_Witness ==
    \E s \in Slots :
        /\ patcher.constructed /\ patcher.majorVersion = 4
        /\ calls[s].op = "getClassSetSync" /\ calls[s].pc = "failed"
        /\ patcher.cacheEnabled /\ Persisted /= {}

\* the version string parses: it is present and coerces to a version
Parses(version) == TruthyVersion(version) /\ coerce(version) /= NullSemVer

\* C7: resolveMajorVersion returns a hint of 2, 3 or 4 whatever the version;
\* otherwise the major of a parsed version when it is 2 or 3, 4 when that
\* major is 4 or more, and 3 when the version is absent or does not parse.
C7_ResolvePolicy ==
    rmv.result /= 0 =>
        IF rmv.hint \in {2, 3, 4} THEN rmv.result = rmv.hint
        ELSE /\ (Parses(rmv.version) /\ coerce(rmv.version)[1] \in {2, 3}) =>
                    rmv.result = coerce(rmv.version)[1]
             /\ (Parses(rmv.version) /\ coerce(rmv.version)[1] >= 4) => rmv.result = 4
             /\ ~Parses(rmv.version) => rmv.result = 3

\* a hint that overrides a version string with another major
C7_Witness ==
    /\ rmv.result = 2 /\ rmv.hint = 2
    /\ Parses(rmv.version) /\ coerce(rmv.version)[1] = 3

\* the last event of a trace
Last(trace) == trace[Len(trace)]

\* C8: when the legacy build or the v4 collection fails during getClassSet or
\* extract, the call fails with that error, the failing step was started
\* once, it is the last step of the call, and the cache file and the output
\* file are as the call found them.
C8_FailurePropagates ==
    \A s \in Slots :
      /\ (Has(calls[s].trace, "build:fail") \/ Has(calls[s].trace, "collect:fail")) =>
            calls[s].pc = "failed"
      /\ (Async(calls[s]) /\ calls[s].pc = "failed") =>
            /\ calls[s].error \in {"build", "collect"}
            /\ calls[s].error = "build" =>
                    /\ Count(calls[s].trace, "build:start") = 1
                    /\ Last(calls[s].trace) = "build:fail"
                    /\ ~Has(calls[s].trace, "collect:start")
            /\ calls[s].error = "collect" =>
                    /\ Count(calls[s].trace, "collect:start") = 1
                    /\ Last(calls[s].trace) = "collect:fail"
            /\ ~Has(calls[s].trace, "read:start")
            /\ ~Has(calls[s].trace, "write:start")
            /\ ~Has(calls[s].trace, "output:start")
            /\ calls[s].result = NoSet /\ calls[s].filename = Undefined
            /\ cacheFile = calls[s].startCache
            /\ outputFile = calls[s].startOutput

\* an extract that was to write its output has failed in the legacy build
C8_Witness ==
    \E s \in Slots :
        /\ calls[s].op = "extract" /\ calls[s].pc = "failed" /\ calls[s].error = "build"
        /\ patcher.cacheEnabled /\ ~SkipsOutput(calls[s].write, patcher)

\* the steps of a call, in the order the code runs them
StepOrder ==
    <<"build:start", "build:end", "collect:start", "collect:end",
      "read:start", "read:end", "write:start", "write:end",
      "output:start", "output:end">>

Rank(e) ==
    IF e = "build:fail" THEN 2
    ELSE IF e = "collect:fail" THEN 4
    ELSE CHOOSE i \in 1..Len(StepOrder) : StepOrder[i] = e

\* events are in step order, and a step starts only when no step is open
Sequential(trace) ==
    /\ \A i, j \in 1..Len(trace) : i < j => Rank(trace[i]) < Rank(trace[j])
    /\ \A i \in 1..Len(trace) :
        Rank(trace[i]) % 2 = 0 => (i > 1 /\ Rank(trace[i - 1]) = Rank(trace[i]) - 1)

\* C9: in every call the steps run one at a time in the order build,
\* collection, cache read, cache write; getClassSet on major version 2 or 3
\* collects only after the build has ended; on major version 4 no build is
\* started, and getClassSetSync starts none on any version.
C9_StepOrder ==
    \A s \in Slots :
        LET t == calls[s].trace
        IN  /\ Sequential(t)
            /\ (Legacy /\ Async(calls[s]) /\ Has(t, "collect:start")) => Has(t, "build:end")
            /\ Has(t, "read:start") => Has(t, "collect:end")
            /\ Has(t, "write:start") => Has(t, "read:end")
            /\ (patcher.constructed /\ patcher.majorVersion = 4) => ~Has(t, "build:start")
            /\ calls[s].op = "getClassSetSync" => ~Has(t, "build:start")

\* a getClassSet on a legacy version that ran all four steps
C9_Witness ==
    \E s \in Slots :
        /\ Legacy /\ calls[s].op = "getClassSet" /\ calls[s].pc = "done"
        /\ calls[s].trace = SubSeq(StepOrder, 1, 8)

\* the file was written by the call
Wrote(c) == Has(c.trace, "output:end")

\* C10: an extract that returns wrote the output file exactly when the
\* caller's write flag, or output.enabled when the caller gave none, is true
\* and output.file is set; it carries a filename exactly when it wrote; and
\* classList holds the members of classSet, each once.
C10_ExtractWrite ==
    \A s \in Slots :
        (calls[s].op = "extract" /\ calls[s].pc = "done") =>
            LET effective == IF calls[s].write = "true" THEN TRUE
                             ELSE IF calls[s].write = "false" THEN FALSE
                             ELSE patcher.outputEnabled
                fileSet == patcher.file /= Undefined /\ patcher.file /= ""
            IN  /\ Wrote(calls[s]) <=> (effective /\ fileSet)
                /\ Wrote(calls[s]) => outputFile /= "absent"
                /\ (calls[s].filename /= Undefined) <=> Wrote(calls[s])
                /\ Range(calls[s].classList) = calls[s].result
                /\ Len(calls[s].classList) = Cardinality(calls[s].result)

\* an extract told not to write although output.enabled is true and the file set
C10_Witness ==
    \E s \in Slots :
        /\ calls[s].op = "extract" /\ calls[s].pc = "done"
        /\ calls[s].write = "false" /\ patcher.outputEnabled /\ patcher.file = OutputPath
        /\ ~Wrote(calls[s]) /\ Cardinality(calls[s].result) = 2

\* C11: when the package is not found the constructor throws and leaves no
\* instance: no major version, no cache store, no call, and the cache file
\* and the output file untouched; when it is found the instance exists with
\* a major version of 2, 3 or 4 and its cache store.
C11_ConstructFailsFast ==
    /\ [](patcher.packageInfo = "missing" =>
            /\ patcher.threw /\ ~patcher.constructed
            /\ patcher.majorVersion = 0 /\ ~patcher.cacheStore
            /\ \A s \in Slots : calls[s] = IdleCall)
    /\ [](patcher.packageInfo = "found" =>
            /\ patcher.constructed /\ ~patcher.threw
            /\ patcher.majorVersion \in {2, 3, 4} /\ patcher.cacheStore)
    /\ [][patcher'.packageInfo = "missing" => UNCHANGED <<cacheFile, outputFile, calls>>]_vars

\* a construction that threw over an existing cache file
C11_Witness == patcher.threw /\ patcher.packageInfo = "missing" /\ Persisted /= {}

\* C12: collectContentTokens and collectContentTokensByFile change nothing but
\* the token call itself, whatever the major version and whatever class-set
\* call is in flight: no store read or write, no build, no collection, the
\* cache file as it was; the extractor gets the caller's cwd or projectRoot,
\* and the caller's sources, else tailwind.v4.sources, else the empty list.
C12_TokensIndependent ==
    /\ [][tokens' /= tokens => UNCHANGED <<patcher, cacheFile, outputFile, calls>>]_vars
    /\ [](tokens.op /= "none" =>
            /\ tokens.cwd = IF tokens.cwdArg = Undefined THEN ProjectRoot ELSE tokens.cwdArg
            /\ tokens.sources =
                 IF tokens.sourcesArg /= Undefined THEN tokens.sourcesArg
                 ELSE IF patcher.v4 = "sources" THEN "v4-sources" ELSE "[]")

\* tokens collected by file with defaulted arguments while a getClassSet is
\* between its cache read and its cache write
C12_Witness ==
    /\ tokens.op = "collectContentTokensByFile"
    /\ tokens.cwd = ProjectRoot /\ tokens.sources = "v4-sources"
    /\ calls[1].pc = "writing" /\ Persisted /= {}

\* C13: fromUnifiedConfig turns output.stripUniversalSelector into
\* output.removeUniversalSelector and keeps file and pretty; turns
\* tailwind.package into packageName and tailwind.next into v4 and keeps
\* version and resolve; and the result has v2, v3, cwd and config, undefined
\* when the registry does not supply them.
C13_UnifiedMapping ==
    (app.fn = "fromUnifiedConfig" /\ app.applied) =>
        /\ Has_(app.input, "output") =>
            /\ Get(app.result, "output.file") = Get(app.input, "output.file")
            /\ Get(app.result, "output.pretty") = Get(app.input, "output.pretty")
            /\ Get(app.result, "output.removeUniversalSelector")
                    = Get(app.input, "output.stripUniversalSelector")
            /\ ~Has_(app.result, "output.stripUniversalSelector")
        /\ Has_(app.input, "tailwind") =>
            /\ Get(app.result, "tailwind.packageName") = Get(app.input, "tailwind.package")
            /\ Get(app.result, "tailwind.v4") = Get(app.input, "tailwind.next")
            /\ Get(app.result, "tailwind.version") = Get(app.input, "tailwind.version")
            /\ Get(app.result, "tailwind.resolve") = Get(app.input, "tailwind.resolve")
            /\ \A member \in {"v2", "v3", "cwd", "config"} :
                LET path == IF member = "v2" THEN "tailwind.v2"
                            ELSE IF member = "v3" THEN "tailwind.v3"
                            ELSE IF member = "cwd" THEN "tailwind.cwd"
                            ELSE "tailwind.config"
                IN  ~Has_(app.input, path) =>
                        (Has_(app.result, path) /\ app.result[path] = Undefined)

\* the registry of the unit test, converted: no v2, v3, cwd or config in it
C13_Witness ==
    /\ app.fn = "fromUnifiedConfig" /\ app.applied
    /\ DOMAIN app.input = {"output", "output.file", "output.pretty",
                           "output.stripUniversalSelector", "tailwind",
                           "tailwind.version", "tailwind.package",
                           "tailwind.resolve", "tailwind.next"}
    /\ app.result["tailwind.v4"] = "tailwind.next"
    /\ app.result["tailwind.cwd"] = Undefined

\* C14: the constructor converts its options with fromLegacyOptions exactly
\* when they have a `patch` member, and hands them on unchanged otherwise; the
\* conversion turns patch.output.filename into output.file, keeps
\* removeUniversalSelector, gives a supplied cache dir as cache.dir with
\* cache.enabled = true, turns applyPatches.extendLengthUnits into
\* features.extendLengthUnits and tailwindcss.version and v3 into
\* tailwind.version and tailwind.v3, and leaves output.format undefined.
C14_LegacyConversion ==
    (app.fn = "constructor" /\ app.applied) =>
        IF Has_(app.input, "patch")
        THEN /\ ~Has_(app.result, "patch")
             /\ Get(app.result, "output.file") = Get(app.input, "patch.output.filename")
             /\ Get(app.result, "output.removeUniversalSelector")
                    = Get(app.input, "patch.output.removeUniversalSelector")
             /\ Get(app.result, "output.format") = Undefined
             /\ Has_(app.input, "cache.dir") =>
                    /\ Get(app.result, "cache.dir") = "cache.dir"
                    /\ Get(app.result, "cache.enabled") = "true"
             /\ Get(app.result, "features.extendLengthUnits")
                    = Get(app.input, "patch.applyPatches.extendLengthUnits")
             /\ Get(app.result, "tailwind.version") = Get(app.input, "patch.tailwindcss.version")
             /\ Get(app.result, "tailwind.v3") = Get(app.input, "patch.tailwindcss.v3")
        ELSE /\ DOMAIN app.result = DOMAIN app.input
             /\ \A path \in DOMAIN app.input : app.result[path] = app.input[path]

\* the legacy options of the unit test, converted by the constructor
C14_Witness ==
    /\ app.fn = "constructor" /\ app.applied
    /\ DOMAIN app.input = {"cache", "cache.dir", "cache.file", "patch", "patch.output",
                           "patch.output.filename", "patch.output.loose",
                           "patch.output.removeUniversalSelector", "patch.applyPatches",
                           "patch.applyPatches.extendLengthUnits", "patch.tailwindcss",
                           "patch.tailwindcss.version", "patch.tailwindcss.v3"}
    /\ app.result["output.file"] = "patch.output.filename"
    /\ app.result["cache.enabled"] = "true"
    /\ app.result["tailwind.v3"] = "patch.tailwindcss.v3"

\* the lines of a text that end in a newline, and what follows the last newline
RECURSIVE TerminatedLines(_, _)
TerminatedLines(text, line) ==
    IF text = <<>> THEN <<>>
    ELSE IF Head(text) = "\n" THEN <<line>> \o TerminatedLines(Tail(text), "")
    ELSE TerminatedLines(Tail(text), line \o Head(text))

EndsWithNewline(text) == text /= <<>> => text[Len(text)] = "\n"

WroteLines == app.fn = "tokens" /\ app.applied /\ app.written /\ app.format = "lines"

\* C15: the text the tokens command writes in the lines format has exactly
\* one newline-terminated line per entry of the report, in report order, each
\* "{relativeFile}:{line}:{column} {rawCandidate} ({start}-{end})", so for a
\* report without entries it has no line.
C15_OneLinePerToken ==
    WroteLines =>
        /\ EndsWithNewline(app.text)
        /\ Len(TerminatedLines(app.text, "")) = Len(app.entries)
        /\ \A i \in 1..Len(app.entries) :
                TerminatedLines(app.text, "")[i] = formatTokenLine(app.entries[i])

\* the first defined value of a sequence of values, undefined if there is none
RECURSIVE FirstDefined(_)
FirstDefined(values) ==
    IF values = <<>> THEN Undefined
    ELSE IF Head(values) /= Undefined THEN Head(values)
    ELSE FirstDefined(Tail(values))

\* C16: the build of major version 2 or 3 gets, for each of cwd, config and
\* postcssPlugin, the first defined value among the sub-config of that version
\* and the tailwind base, cwd falling back further to the project root; no
\* value comes from the other version's sub-config, and without the matching
\* sub-config the base values are used.
C16_ExecutionOptions ==
    (app.fn = "runTailwindBuildIfNeeded" /\ app.applied /\ app.built) =>
        LET own == IF app.majorVersion = 2 THEN "tailwind.v2" ELSE "tailwind.v3"
            other == IF app.majorVersion = 2 THEN "tailwind.v3" ELSE "tailwind.v2"
            In(path) == Get(app.input, path)
        IN  /\ app.result.cwd = FirstDefined(<<In(own \o ".cwd"), In("tailwind.cwd"),
                                              ProjectRoot>>)
            /\ app.result.config = FirstDefined(<<In(own \o ".config"),
                                                 In("tailwind.config")>>)
            /\ app.result.postcssPlugin = FirstDefined(<<In(own \o ".postcssPlugin"),
                                                        In("tailwind.postcssPlugin")>>)
            /\ {app.result.cwd, app.result.config, app.result.postcssPlugin}
                    \cap {other \o ".cwd", other \o ".config", other \o ".postcssPlugin"} = {}
            /\ ~Has_(app.input, own) =>
                    /\ app.result.cwd = FirstDefined(<<In("tailwind.cwd"), ProjectRoot>>)
                    /\ app.result.config = In("tailwind.config")
                    /\ app.result.postcssPlugin = In("tailwind.postcssPlugin")

\* a version 2 build whose v2 sub-config gives the config only, beside a
\* complete v3 sub-config: cwd is the project root, nothing is from v3
C16_Witness ==
    /\ app.fn = "runTailwindBuildIfNeeded" /\ app.applied /\ app.built
    /\ app.majorVersion = 2
    /\ DOMAIN app.input = {"tailwind", "tailwind.postcssPlugin", "tailwind.v2",
                           "tailwind.v2.config", "tailwind.v3", "tailwind.v3.cwd",
                           "tailwind.v3.config", "tailwind.v3.postcssPlugin"}
    /\ app.result = [cwd |-> ProjectRoot, config |-> "tailwind.v2.config",
                     postcssPlugin |-> "tailwind.postcssPlugin"]

\* every call has been made and has ended, and did not fail
AllDone == \A s \in Slots : calls[s].pc = "done"

\* the set persisted before the first call
Initial == Found(calls[1])

AllContained ==
    /\ Initial \subseteq Persisted
    /\ \A s \in Slots : calls[s].observed \subseteq Persisted

\* C17 as claimed: with strategy merge, whatever the interleaving of
\* overlapping getClassSet calls, no step removes a member from the persisted
\* set, and once all calls have returned it contains the initial persisted set
\* and every call's observed set.
C17_NoLostUpdate ==
    [][MergeOn => /\ Persisted \subseteq Persisted'
                  /\ (AllDone => AllContained)']_vars

\* C17 as amended: the persisted set keeps every member of the initial
\* persisted set, and once all calls have returned it is the set returned by
\* one of them, so it contains the initial set and that call's observed set.
C17_LastWriterWins ==
    MergeOn =>
        /\ calls[1].pc /= "idle" => Initial \subseteq Persisted
        /\ AllDone => \E s \in Slots : /\ Persisted = calls[s].result
                                       /\ calls[s].observed \subseteq Persisted

\* two overlapped calls have returned and the persisted set lacks a class
\* that the first of them observed
C17_Witness ==
    /\ MergeOn /\ AllDone
    /\ \A s \in Slots : Found(calls[s]) = Initial
    /\ ~(calls[1].observed \subseteq Persisted)
    /\ calls[2].observed \subseteq Persisted

\* the reads and writes of the cache store among the steps of a call
StoreOps(trace) ==
    SelectSeq(trace, LAMBDA e : e \in {"read:start", "read:end", "write:start", "write:end"})

\* C18: an asynchronous reconciliation that found the cache file F and
\* observed O returns the set, leaves the cache file and performs the store
\* reads and writes that mergeWithCacheSync returns, leaves and performs on F
\* and O, whatever cache.enabled and the strategy are; these are no store
\* operation, one read, or one read followed by one write.
C18_SyncAsyncEquivalent ==
    \A s \in Slots :
        (patcher.constructed /\ Async(calls[s]) /\ Reconciled(calls[s])) =>
            LET sync == mergeWithCacheSync(calls[s].observed, calls[s].startCache, patcher)
            IN  /\ calls[s].result = sync[1]
                /\ cacheFile = sync[2]
                /\ StoreOps(calls[s].trace) = sync[3]
                /\ sync[3] \in {<<>>, <<"read:start", "read:end">>,
                                <<"read:start", "read:end", "write:start", "write:end">>}

\* an asynchronous overwrite reconciliation of an empty observed set over a
\* non-empty cache: one read, no write, the persisted set returned
C18_Witness ==
    \E s \in Slots :
        /\ OverwriteOn /\ calls[s].op = "getClassSet" /\ calls[s].pc = "done"
        /\ calls[s].observed = {} /\ Persisted /= {}
        /\ StoreOps(calls[s].trace) = <<"read:start", "read:end">>
        /\ calls[s].result = mergeWithCacheSync({}, calls[s].startCache, patcher)[1]

\* C19: with the cache enabled, whatever the strategies of the instances that
\* share the cache file and whatever their calls observe, no step of a
\* reconciliation leaves an empty persisted set where a non-empty one was, and
\* a write over a non-empty persisted set writes a non-empty set.
C19_HistoryKept ==
    [][(patcher.constructed /\ patcher.cacheEnabled /\ Persisted /= {}) =>
            /\ Persisted' /= {}
            /\ cacheFile' /= cacheFile => cacheFile'.classes /= {}]_vars

\* after a merge instance, an overwrite instance whose call observed nothing
\* has returned, and the persisted set is as the call found it, not empty
C19_Witness ==
    /\ app.fn = "new TailwindcssPatcher"
    /\ app.instances = <<"merge", "overwrite">>
    /\ calls[1].pc = "done" /\ calls[1].observed = {}
    /\ Found(calls[1]) /= {} /\ Persisted = Found(calls[1])

\* C20: resolveMajorVersion returns 2, 3 or 4 for every version, absent,
\* null, empty, unparsable or parsed with any major, and every hint; a hint
\* other than 2, 3 or 4 changes nothing: the result is then 3 for a parsed
\* major of 0 or 1 and for a version that is absent or does not parse, the
\* major itself for 2, 3 and 4, and 4 for a greater major.
C20_ResolveTotal ==
    rmv.result /= 0 =>
        /\ rmv.result \in {2, 3, 4}
        /\ rmv.hint \notin {2, 3, 4} =>
            /\ (Parses(rmv.version) /\ coerce(rmv.version)[1] \in {0, 1}) => rmv.result = 3
            /\ (Parses(rmv.version) /\ coerce(rmv.version)[1] \in {2, 3, 4}) =>
                    rmv.result = coerce(rmv.version)[1]
            /\ (Parses(rmv.version) /\ coerce(rmv.version)[1] > 4) => rmv.result = 4
            /\ ~Parses(rmv.version) => rmv.result = 3

\* a hint of 5 beside a version of major 1: the hint is ignored, the result 3
C20_Witness ==
    /\ rmv.result = 3 /\ rmv.hint = 5
    /\ Parses(rmv.version) /\ coerce(rmv.version)[1] = 1

====
